---- MODULE Spec2Model ----
(***************************************************************************)
(* Model of daniel/models.py: the codebook grid encoder (Grid), the        *)
(* quantization-aware linear layer (QALinear) and the two networks built   *)
(* from them (GridVINR, VINR).                                             *)
(*                                                                         *)
(* One module object is under consideration at a time: `module` names its  *)
(* class, `self` holds its fields and `call` the frame of the last method  *)
(* call made on it.                                                        *)
(*                                                                         *)
(* Numbers.  Tensor values are float32 in the program.  Here a value is an *)
(* integer number of units and every arithmetic operation on values is     *)
(* rounded to MantBits significant bits, ties to even (Fl, FlQ), so that   *)
(* a float round trip is not the identity.  Coordinates are rationals with *)
(* denominator CoordDen; the arithmetic of lines 32-36 on them is exact.   *)
(* The code axis of the codebook is elementwise in every operation of      *)
(* Grid.forward, so a codebook row is modelled by one of its components;   *)
(* code_size is kept as a number (it decides numel()).                     *)
(***************************************************************************)
EXTENDS Integers, Sequences, FiniteSets, TLC

VARIABLES module, self, call

vars == <<module, self, call>>

\* ------------------------------------------------------------- bounds
MaxRes == 4
CoordDen == 6
CoordExtra == 3
MantBits == 3

Bitwidths == {0, 1}
CodeSizes == {4}
CodeVals == {-6, 1, 20}
Logits == {0, 1}

NoCall == [op |-> "none"]

\* ------------------------------------------------------ float arithmetic
RECURSIVE Pow2(_)
Pow2(n) == IF n <= 0 THEN 1 ELSE 2 * Pow2(n - 1)

Abs(x) == IF x < 0 THEN -x ELSE x
Min(a, b) == IF a <= b THEN a ELSE b
Max(a, b) == IF a >= b THEN a ELSE b

\* floor and ceiling of the rational n/d, d > 0
Floor(n, d) == n \div d
Ceil(n, d) == -((-n) \div d)

\* a/b (a >= 0, b > 0) rounded to the nearest integer, ties to the even one
RoundHalfEven(a, b) ==
    LET f == a \div b
        r == a % b
    IN  IF 2 * r < b THEN f
        ELSE IF 2 * r > b THEN f + 1
        ELSE IF f % 2 = 0 THEN f ELSE f + 1

RECURSIVE Exponent(_)
Exponent(m) == IF m < Pow2(MantBits) THEN 0 ELSE 1 + Exponent(m \div 2)

\* the rational n/d (d > 0) rounded to a value of MantBits significant bits
FlQ(n, d) ==
    LET a == Abs(n)
        s == Pow2(Exponent(a \div d))
        r == s * RoundHalfEven(a, d * s)
    IN  IF n < 0 THEN -r ELSE r

Fl(x) == FlQ(x, 1)

\* ------------------------------------------------------------------ Grid
Codes(bitwidth) == 0 .. (Pow2(bitwidth) - 1)
Rows(res) == 0 .. (res - 1)

LogitRows(bitwidth) ==
    {f \in [Codes(bitwidth) -> Logits] : \E i \in Codes(bitwidth) : f[i] = 0}

\* torch.argmax: the first index holding the maximum
ArgMax(row) ==
    CHOOSE i \in DOMAIN row :
        /\ \A j \in DOMAIN row : row[j] <= row[i]
        /\ \A j \in DOMAIN row : (row[j] = row[i]) => i <= j

\* softmax of a logit row, in eighths: one code gets 8/8; two equal logits
\* 4/8 each; logits one apart e/(1+e) = 0.731 and 0.269, i.e. 6/8 and 2/8.
SoftmaxDen == Pow2(3)
Softmax(row) ==
    [i \in DOMAIN row |->
        IF Cardinality(DOMAIN row) = 1 THEN SoftmaxDen
        ELSE LET o == CHOOSE j \in DOMAIN row : j # i
             IN  IF row[i] = row[o] THEN 4
                 ELSE IF row[i] > row[o] THEN 6 ELSE 2]

RECURSIVE DotUpTo(_, _, _)
DotUpTo(w, cb, i) ==
    IF i = 0 THEN FlQ(w[0] * cb[0], SoftmaxDen)
    ELSE Fl(DotUpTo(w, cb, i - 1) + FlQ(w[i] * cb[i], SoftmaxDen))

\* line 27: F.softmax(self.indices, dim=-1) @ self.codebook
SoftGrid(g) ==
    [r \in Rows(g.grid_resolution) |->
        DotUpTo(Softmax(g.indices[r]), g.codebook, Cardinality(DOMAIN g.codebook) - 1)]

\* lines 28-29: index_select(self.codebook, 0, argmax(self.indices, dim=1))
MaxGrid(g) ==
    [r \in Rows(g.grid_resolution) |-> g.codebook[ArgMax(g.indices[r])]]

\* mutant: the soft grid is returned, the hard value never substituted
StraightThroughSoft(hard, soft) == soft

\* line 30: (max_grid - soft_grid).detach() + soft_grid
StraightThrough(hard, soft) == Fl(Fl(hard - soft) + soft)

EffectiveGrid(g) ==
    [r \in Rows(g.grid_resolution) |-> StraightThrough(MaxGrid(g)[r], SoftGrid(g)[r])]

\* torch.clamp(x, min=lo, max=hi) = min(max(x, lo), hi)
Clamp(x, lo, hi) == Min(Max(x, lo), hi)

\* line 32, as a numerator over WeightDen: (coords + 1) / 2 * (res - 1)
WeightDen == 2 * CoordDen
WeightDen3 == WeightDen * WeightDen * WeightDen
Rescale(n, res) == (n + CoordDen) * (res - 1)

\* mutants: a clamp is left out
LeftIndexUnclamped(cn, res) == Floor(cn, WeightDen)
RRightIndexUnclamped(cn, res) == Max(Ceil(cn + WeightDen, WeightDen), 2)

LeftIndex(cn, res) == Min(Floor(cn, WeightDen), res - 2)
RightIndex(cn, res) == Max(Ceil(cn, WeightDen), 1)
LLeftIndex(cn, res) == Clamp(Floor(cn - WeightDen, WeightDen), 0, res - 3)
RRightIndex(cn, res) == Clamp(Ceil(cn + WeightDen, WeightDen), 2, res - 1)

\* mutant: the two weights are swapped
LinearSwapped(wn, L, R) ==
    Fl(FlQ(wn * L, WeightDen) + FlQ((WeightDen - wn) * R, WeightDen))

\* line 42: (1-weight) * left_value + weight * right_value
Linear(wn, L, R) ==
    Fl(FlQ((WeightDen - wn) * L, WeightDen) + FlQ(wn * R, WeightDen))

\* line 52
Cubic(wn, LL, L, R, RR) ==
    LET Z  == Fl(Fl(Fl(3 * Fl(L - R)) + RR) - LL)
        wZ == FlQ(wn * Z, WeightDen)
        Y  == Fl(Fl(Fl(Fl(Fl(2 * LL) - Fl(5 * L)) + Fl(4 * R)) - RR) + wZ)
        wY == FlQ(wn * Y, WeightDen)
        X  == Fl(Fl(R - LL) + wY)
        hX == FlQ(wn * X, 2 * WeightDen)
    IN  Fl(L + hX)

\* line 52 without rounding, as a numerator over 2 * WeightDen^3
CubicExact(wn, LL, L, R, RR) ==
    LET Z == 3 * (L - R) + RR - LL
        Y == 2 * LL - 5 * L + 4 * R - RR
    IN  2 * WeightDen3 * L
        + wn * (WeightDen * WeightDen * (R - LL) + wn * (WeightDen * Y + wn * Z))

InGrid(i, res) == 0 <= i /\ i < res

\* lines 32-52 of Grid.forward on the coordinate n / CoordDen, over the rows
\* `grid`; index_select raises IndexError on an index outside 0 .. res-1
Interpolate(g, grid, n) ==
    LET res   == g.grid_resolution
        cn    == Rescale(n, res)
        left  == LeftIndex(cn, res)
        right == RightIndex(cn, res)
        wn    == cn - left * WeightDen
        ll    == LLeftIndex(cn, res)
        rr    == RRightIndex(cn, res)
        frame == [op |-> "forward", coords |-> n, rescaled |-> cn, grid |-> grid,
                  left |-> left, right |-> right, weight |-> wn]
        fail  == [status |-> "IndexError"]
    IN  IF ~InGrid(left, res) \/ ~InGrid(right, res)
        THEN frame @@ fail
        ELSE IF ~g.cubic_interpolation
        THEN frame @@ [status |-> "ok", out |-> Linear(wn, grid[left], grid[right])]
        ELSE IF ~InGrid(ll, res) \/ ~InGrid(rr, res)
        THEN frame @@ [l_left |-> ll, r_right |-> rr] @@ fail
        ELSE frame @@ [l_left |-> ll, r_right |-> rr, status |-> "ok",
                       out |-> Cubic(wn, grid[ll], grid[left], grid[right], grid[rr])]

GridForward(g, n) == Interpolate(g, EffectiveGrid(g), n)

\* mutant: the index table is not counted
GridBitSizeCodebookOnly(res, bitwidth, code_size) == 16 * (Pow2(bitwidth) * code_size)

\* line 55
GridBitSize(res, bitwidth, code_size) ==
    16 * (Pow2(bitwidth) * code_size) + res * bitwidth

GridGetBitSize(g) == GridBitSize(g.grid_resolution, g.bitwidth, g.code_size)

\* Grid.__init__: no argument is validated; both tables are drawn at random
NewGrid(res, bitwidth, code_size, cubic, cb, idx) ==
    [grid_resolution |-> res, bitwidth |-> bitwidth, code_size |-> code_size,
     cubic_interpolation |-> cubic, codebook |-> cb, indices |-> idx,
     raised |-> "none"]

InitGrid ==
    /\ module = "Grid"
    /\ call = NoCall
    /\ \E res \in 0 .. MaxRes, bitwidth \in Bitwidths, code_size \in CodeSizes,
          cubic \in BOOLEAN :
         \E cb \in [Codes(bitwidth) -> CodeVals],
            idx \in [Rows(res) -> LogitRows(bitwidth)] :
            self = NewGrid(res, bitwidth, code_size, cubic, cb, idx)

Coords == (-(CoordDen + CoordExtra)) .. (CoordDen + CoordExtra)

\* -------------------------------------------------------------- QALinear
\* Quantized values are exact rationals num/den here: the float32 rounding of
\* lines 162-164 is left out, the division by n_bits**2 - 1 is not.
FullPrecision == 16
MinValue == 4
MaxNBits == 3

Dims == {1, 2}
WVals == {0, 3, 10}
InputVals == {0, 1}
NBitsSet == (0 .. MaxNBits) \cup {8, FullPrecision}
QuantAxes == {<<-2, -1>>, <<-1>>, <<-2>>}

NaN == [nan |-> TRUE]
Q(num, den) == [nan |-> FALSE, num |-> num, den |-> den]

SetMin(S) == CHOOSE x \in S : \A y \in S : x <= y
SetMax(S) == CHOOSE x \in S : \A y \in S : x >= y

\* torch.round of the rational n/d (d # 0): nearest integer, ties to even
RoundQ(n, d) ==
    IF (n < 0) = (d < 0) \/ n = 0
    THEN RoundHalfEven(Abs(n), Abs(d))
    ELSE -RoundHalfEven(Abs(n), Abs(d))

WeightIdx(in_dim, out_dim) == (0 .. (in_dim - 1)) \X (0 .. (out_dim - 1))

\* the elements reduced together by amin/amax(axis, keepdims=True)
WeightGroup(axis, idx, in_dim, out_dim) ==
    IF axis = <<-2, -1>> THEN WeightIdx(in_dim, out_dim)
    ELSE IF axis = <<-1>> THEN {y \in WeightIdx(in_dim, out_dim) : y[1] = idx[1]}
    ELSE {y \in WeightIdx(in_dim, out_dim) : y[2] = idx[2]}

\* mutant: one interval too many
LevelsSquared(n_bits) == n_bits * n_bits

\* n_bits**2 - 1
Levels(n_bits) == n_bits * n_bits - 1

\* lines 160-164 on one element x of a group: the level torch.round returns
\* and the value; a zero divisor makes scale inf and the product 0 * inf.
RoundElement(x, group, n_bits) ==
    LET min_value == SetMin(group)
        max_value == SetMax(group)
        range     == Max(max_value - min_value, MinValue)
        d         == Levels(n_bits)
        k         == RoundQ((x - min_value) * d, range)
    IN  IF d = 0 THEN [level |-> 0, value |-> NaN]
        ELSE IF d > 0 THEN [level |-> k, value |-> Q(min_value * d + k * range, d)]
        ELSE [level |-> k, value |-> Q(-(min_value * d + k * range), -d)]

\* rounding(self.weight, self.quant_axis)
RoundWeight(q) ==
    [idx \in WeightIdx(q.in_dim, q.out_dim) |->
        RoundElement(q.weight[idx],
                     {q.weight[y] : y \in WeightGroup(q.quant_axis, idx, q.in_dim, q.out_dim)},
                     q.n_bits)]

\* rounding(self.bias): the default axis, -1, of a vector
RoundBias(q) ==
    [j \in 0 .. (q.out_dim - 1) |->
        RoundElement(q.bias[j], {q.bias[y] : y \in 0 .. (q.out_dim - 1)}, q.n_bits)]

Raw(x) == [level |-> 0, value |-> Q(x, 1)]

RECURSIVE SumTo(_, _)
SumTo(f, n) == IF n < 0 THEN 0 ELSE f[n] + SumTo(f, n - 1)

\* lines 146-157: inputs @ weight + bias with the (un)quantized parameters
QALinearForward(q, x) ==
    LET quant  == q.n_bits # FullPrecision
        weight == IF quant THEN RoundWeight(q)
                  ELSE [idx \in WeightIdx(q.in_dim, q.out_dim) |-> Raw(q.weight[idx])]
        bias   == IF quant THEN RoundBias(q)
                  ELSE [j \in 0 .. (q.out_dim - 1) |-> Raw(q.bias[j])]
        out    == [j \in 0 .. (q.out_dim - 1) |->
                    IF bias[j].value.nan \/ \E i \in 0 .. (q.in_dim - 1) : weight[<<i, j>>].value.nan
                    THEN NaN
                    ELSE Q(SumTo([i \in 0 .. (q.in_dim - 1) |-> x[i] * weight[<<i, j>>].value.num],
                                 q.in_dim - 1) + bias[j].value.num,
                           bias[j].value.den)]
    IN  [op |-> "forward", inputs |-> x, quantized |-> quant,
         weight |-> weight, bias |-> bias, out |-> out]

\* weight.amax(self.quant_axis).numel()
NumGroups(axis, in_dim, out_dim) ==
    IF axis = <<-2, -1>> THEN 1 ELSE IF axis = <<-1>> THEN in_dim ELSE out_dim

\* lines 166-171
QALinearBitSize(in_dim, out_dim, n_bits, axis) ==
    IF n_bits = FullPrecision
    THEN 16 * (in_dim * out_dim + out_dim)
    ELSE 16 * 2 * NumGroups(axis, in_dim, out_dim) + (in_dim * out_dim) * n_bits
         + 16 * 2 + out_dim * n_bits

QALinearGetBitSize(q) == QALinearBitSize(q.in_dim, q.out_dim, q.n_bits, q.quant_axis)

InitQALinear ==
    /\ module = "QALinear"
    /\ call = NoCall
    /\ \E in_dim \in Dims, out_dim \in Dims, n_bits \in NBitsSet, axis \in QuantAxes :
         \E w \in [WeightIdx(in_dim, out_dim) -> WVals],
            b \in [0 .. (out_dim - 1) -> WVals] :
            self = [in_dim |-> in_dim, out_dim |-> out_dim, n_bits |-> n_bits,
                    quant_axis |-> axis, weight |-> w, bias |-> b]

QAForward ==
    /\ module = "QALinear"
    /\ call = NoCall
    /\ \E x \in [0 .. (self.in_dim - 1) -> InputVals] : call' = QALinearForward(self, x)
    /\ UNCHANGED <<module, self>>

QAGetBitSize ==
    /\ module = "QALinear"
    /\ call = NoCall
    /\ call' = [op |-> "get_bit_size", bits |-> QALinearGetBitSize(self)]
    /\ UNCHANGED <<module, self>>

\* ------------------------------------------------------- GridVINR, VINR
\* Networks are modelled by their shapes: each layer of self.net is a record
\* of what it was constructed with, each Grid of self.grids likewise.
DefaultBitwidth == 6
MaxHidden == 2
MaxChannels == 3

InDims == {1, 2}
OutDims == {1}
HiddenDims == {2, 64}
NetNBits == {8, FullPrecision}
GridReduces == {"sum", "cat", "invalid"}
Activations == {"gelu"}

\* line 65-66: Grid(2**i, code_size=c) for i, c in [[7, 4], [9, 4], [11, 4]]
GridSpecs == <<<<7, 4>>, <<9, 4>>, <<11, 4>>>>
NetGrid(i, c) ==
    [grid_resolution |-> Pow2(i), bitwidth |-> DefaultBitwidth, code_size |-> c,
     cubic_interpolation |-> FALSE]

\* QALinear(in_dim, out_dim, n_bits=n_bits): quant_axis keeps its default
QALayer(in_dim, out_dim, n_bits) ==
    [kind |-> "QALinear", in_dim |-> in_dim, out_dim |-> out_dim, n_bits |-> n_bits,
     quant_axis |-> <<-2, -1>>]

\* utils.get_activation_fn: an activation module, which has no get_bit_size
GetActivationFn(name) == [kind |-> "activation", name |-> name]

\* hasattr(l, 'get_bit_size')
HasGetBitSize(l) == l.kind = "QALinear"

LayerBits(l) == IF ~HasGetBitSize(l) THEN 0 ELSE QALinearGetBitSize(l)

RECURSIVE SumSeq(_)
SumSeq(xs) == IF xs = <<>> THEN 0 ELSE Head(xs) + SumSeq(Tail(xs))

\* lines 96-99 and 126-128
NetBits(net) == SumSeq([k \in 1 .. Len(net) |-> LayerBits(net[k])])
GridsBits(grids) == SumSeq([k \in 1 .. Len(grids) |-> GridGetBitSize(grids[k])])

\* mutant: the grids are not counted
NetGetBitSizeNetOnly(m, v) == NetBits(v.net)

NetGetBitSize(m, v) ==
    IF m = "GridVINR" THEN NetBits(v.net) + GridsBits(v.grids) ELSE NetBits(v.net)

\* lines 86-93 and 123: the width of the tensor handed to self.net
\* for an input of `channels` channels
FedWidth(m, v, channels) ==
    IF m = "VINR" THEN channels
    ELSE IF v.grid_reduce = "sum" THEN v.grids[1].code_size + (channels - 1)
    ELSE SumSeq([k \in 1 .. Len(v.grids) |-> v.grids[k].code_size]) + (channels - 1)

\* the first matrix product, inputs @ weight, needs the widths to agree
NetForward(m, v, channels) ==
    LET width == FedWidth(m, v, channels)
    IN  [op |-> "forward", channels |-> channels, width |-> width,
         status |-> IF width = v.net[1].in_dim THEN "ok" ELSE "ShapeError"]

\* the parameter tensors allocated so far: codebook and indices of each Grid,
\* weight and bias of each QALinear
Allocated(v) ==
    2 * Len(v.grids) + 2 * Cardinality({k \in 1 .. Len(v.net) : HasGetBitSize(v.net[k])})

InitNet ==
    /\ module \in {"GridVINR", "VINR"}
    /\ call = NoCall
    /\ \E in_dim \in InDims, out_dim \in OutDims, n \in 0 .. MaxHidden,
          hidden_dim \in HiddenDims, activation \in Activations, n_bits \in NetNBits,
          grid_reduce \in GridReduces :
         /\ module = "VINR" => grid_reduce = "sum"
         /\ self = [pc |-> IF module = "GridVINR" THEN "grids" ELSE "first_layer",
                    in_dim |-> in_dim, out_dim |-> out_dim, n_hidden_layers |-> n,
                    hidden_dim |-> hidden_dim, activation |-> activation,
                    n_bits |-> n_bits,
                    grid_reduce |-> IF module = "GridVINR" THEN grid_reduce ELSE "none",
                    grids |-> <<>>, first_size |-> in_dim, net |-> <<>>, i |-> 0,
                    raised |-> "none"]

\* lines 65-66
CtorGrids ==
    /\ module = "GridVINR" /\ self.pc = "grids"
    /\ self' = [self EXCEPT !.pc = "first_size",
                  !.grids = [k \in 1 .. Len(GridSpecs) |->
                               NetGrid(GridSpecs[k][1], GridSpecs[k][2])]]
    /\ UNCHANGED <<module, call>>

\* mutant: the else branch treats every other value as 'cat'
CtorFirstSizeLenient ==
    /\ module = "GridVINR" /\ self.pc = "first_size"
    /\ self' = [self EXCEPT !.pc = "first_layer",
                  !.first_size = self.in_dim + self.grids[1].code_size]
    /\ UNCHANGED <<module, call>>

\* lines 68-73
CtorFirstSize ==
    /\ module = "GridVINR" /\ self.pc = "first_size"
    /\ self' = IF self.grid_reduce = "sum"
               THEN [self EXCEPT !.pc = "first_layer",
                                 !.first_size = self.in_dim + self.grids[1].code_size]
               ELSE IF self.grid_reduce = "cat"
               THEN [self EXCEPT !.pc = "first_layer",
                                 !.first_size = self.in_dim
                                    + SumSeq([k \in 1 .. Len(self.grids) |->
                                                self.grids[k].code_size])]
               ELSE [self EXCEPT !.pc = "raised", !.raised = "ValueError"]
    /\ UNCHANGED <<module, call>>

\* lines 75 and 112
CtorFirstLayer ==
    /\ module \in {"GridVINR", "VINR"} /\ self.pc = "first_layer"
    /\ self' = [self EXCEPT !.pc = "hidden", !.i = 0,
                  !.net = <<QALayer(self.first_size, self.hidden_dim, self.n_bits)>>]
    /\ UNCHANGED <<module, call>>

\* lines 77-79 and 114-116: one turn of the loop
CtorHiddenLayer ==
    /\ module \in {"GridVINR", "VINR"} /\ self.pc = "hidden"
    /\ self.i < self.n_hidden_layers
    /\ self' = [self EXCEPT !.i = self.i + 1,
                  !.net = self.net \o <<GetActivationFn(self.activation),
                             QALayer(self.hidden_dim, self.hidden_dim, self.n_bits)>>]
    /\ UNCHANGED <<module, call>>

\* lines 81-84 and 118-121
CtorLastLayers ==
    /\ module \in {"GridVINR", "VINR"} /\ self.pc = "hidden"
    /\ self.i >= self.n_hidden_layers
    /\ self' = [self EXCEPT !.pc = "done",
                  !.net = self.net \o <<GetActivationFn(self.activation),
                             QALayer(self.hidden_dim, self.out_dim, self.n_bits)>>]
    /\ UNCHANGED <<module, call>>

VINRForward ==
    /\ module \in {"GridVINR", "VINR"} /\ self.pc = "done"
    /\ call = NoCall
    /\ \E channels \in 1 .. MaxChannels : call' = NetForward(module, self, channels)
    /\ UNCHANGED <<module, self>>

VINRGetBitSize ==
    /\ module \in {"GridVINR", "VINR"} /\ self.pc = "done"
    /\ call = NoCall
    /\ call' = [op |-> "get_bit_size", bits |-> NetGetBitSize(module, self)]
    /\ UNCHANGED <<module, self>>

\* a method is called when no call is in progress (single-threaded, synchronous)
Forward ==
    /\ module = "Grid"
    /\ call = NoCall
    /\ \E n \in Coords : call' = GridForward(self, n)
    /\ UNCHANGED <<module, self>>

GetBitSize ==
    /\ module = "Grid"
    /\ call = NoCall
    /\ call' = [op |-> "get_bit_size", bits |-> GridGetBitSize(self)]
    /\ UNCHANGED <<module, self>>

\* the call returns to the caller
Return ==
    /\ call # NoCall
    /\ call' = NoCall
    /\ UNCHANGED <<module, self>>

Init == InitGrid \/ InitQALinear \/ InitNet

Next ==
    \/ Forward
    \/ GetBitSize
    \/ QAForward
    \/ QAGetBitSize
    \/ CtorGrids
    \/ CtorFirstSize
    \/ CtorFirstLayer
    \/ CtorHiddenLayer
    \/ CtorLastLayers
    \/ VINRForward
    \/ VINRGetBitSize
    \/ Return

Spec == Init /\ [][Next]_vars

\* ================================================================ claims
GridCall(op) == module = "Grid" /\ call.op = op
InRange(n) == -CoordDen <= n /\ n <= CoordDen
Res == self.grid_resolution

\* C1 as stated: in linear mode, for every coordinate (in [-1, 1] or not), left
\* lies in [0, res-2], right in [1, res-1], and no gather index leaves the grid.
C1_ClampedForEveryCoordinate ==
    (GridCall("forward") /\ ~self.cubic_interpolation /\ Res >= 2)
        => /\ call.left \in 0 .. (Res - 2)
           /\ call.right \in 1 .. (Res - 1)
           /\ call.status # "IndexError"

\* C1 amended: in linear mode, for every coordinate in [-1, 1] and
\* grid_resolution >= 2, left lies in [0, res-2], right in [1, res-1], and no
\* gather index leaves the grid (floor is clamped only above, ceil only below).
C1_ClampedInRange ==
    (GridCall("forward") /\ ~self.cubic_interpolation /\ Res >= 2 /\ InRange(call.coords))
        => /\ call.left \in 0 .. (Res - 2)
           /\ call.right \in 1 .. (Res - 1)
           /\ call.status # "IndexError"

C1_Witness ==
    /\ GridCall("forward") /\ ~self.cubic_interpolation /\ Res >= 3
    /\ call.coords = CoordDen
    /\ call.left = Res - 2 /\ call.right = Res - 1 /\ call.status = "ok"

\* C3 as stated: in linear mode at input -1 (+1) the output is Row[0]
\* (Row[res-1]), with interpolation weight 0 and left = right.
C3_BoundaryWeightZero ==
    (GridCall("forward") /\ ~self.cubic_interpolation /\ Res >= 2
       /\ call.coords \in {-CoordDen, CoordDen})
        => /\ call.status = "ok"
           /\ call.out = call.grid[call.rescaled \div WeightDen]
           /\ call.weight = 0
           /\ call.left = call.right

\* C3 amended: in linear mode with grid_resolution >= 2, at input -1 the output
\* is Row[0] with left = 0, right = 1 and weight 0; at input +1 the output is
\* Row[res-1] with left = res-2, right = res-1 and weight 1.
C3_BoundaryRows ==
    (GridCall("forward") /\ ~self.cubic_interpolation /\ Res >= 2)
        => /\ call.coords = -CoordDen
              => /\ call.status = "ok" /\ call.out = call.grid[0]
                 /\ call.left = 0 /\ call.right = 1 /\ call.weight = 0
           /\ call.coords = CoordDen
              => /\ call.status = "ok" /\ call.out = call.grid[Res - 1]
                 /\ call.left = Res - 2 /\ call.right = Res - 1
                 /\ call.weight = WeightDen

C3_Witness ==
    /\ GridCall("forward") /\ ~self.cubic_interpolation /\ Res >= 2
    /\ call.coords = CoordDen /\ call.status = "ok"
    /\ call.grid[Res - 1] # call.grid[Res - 2]
    /\ call.out = call.grid[Res - 1]

\* C4 as stated: a Grid with cubic interpolation and grid_resolution < 3 is
\* rejected by the constructor with a configuration error.
C4_CubicNeedsThreeCells ==
    (module = "Grid" /\ self.cubic_interpolation /\ Res < 3)
        => self.raised = "ConfigurationError"

\* C6 as stated: every effective grid row is exactly the codebook row at the
\* argmax of its logits, and the output is the interpolation of those rows.
C6_HardGridExactly ==
    (GridCall("forward") /\ InRange(call.coords) /\ call.status = "ok")
        => /\ call.grid = MaxGrid(self)
           /\ call.out = Interpolate(self, MaxGrid(self), call.coords).out

\* C6 amended: every effective grid row is fl(fl(hard - soft) + soft): it is
\* the codebook row at the argmax exactly when hard - soft is computed without
\* rounding, and otherwise within the rounding error
\* u * (|hard - soft| * (1 + u) + |hard|), u = 2^-MantBits, of it.
C6_HardGridUpToRounding ==
    GridCall("forward")
        => \A r \in Rows(Res) :
             LET h == MaxGrid(self)[r]
                 s == SoftGrid(self)[r]
                 e == Abs(call.grid[r] - h)
             IN  /\ Fl(h - s) = h - s => e = 0
                 /\ Pow2(2 * MantBits) * e
                      <= Abs(h - s) * (Pow2(MantBits) + 1) + Pow2(MantBits) * Abs(h)

C6_Witness ==
    /\ GridCall("forward") /\ InRange(call.coords) /\ call.status = "ok"
    /\ \E r \in Rows(Res) :
         /\ SoftGrid(self)[r] # MaxGrid(self)[r]
         /\ call.grid[r] = MaxGrid(self)[r]
         /\ r \in {call.left, call.right}

AtNode == call.rescaled % WeightDen = 0 /\ (call.rescaled \div WeightDen) \in Rows(Res)
Node == call.rescaled \div WeightDen

\* C10 as stated: in cubic mode with grid_resolution >= 3, at every integer
\* rescaled coordinate c the four indices are ordered inside the grid and the
\* output is Row[c].
C10_CubicThroughNodes ==
    (GridCall("forward") /\ self.cubic_interpolation /\ Res >= 3 /\ AtNode)
        => /\ call.status = "ok"
           /\ 0 <= call.l_left /\ call.l_left <= call.left /\ call.left <= call.right
           /\ call.right <= call.r_right /\ call.r_right <= Res - 1
           /\ call.out = call.grid[Node]

\* C10 amended: the four indices are ordered inside the grid at every node; the
\* output is Row[c] for c in 0 .. res-2 (weight 0); at c = res-1 the weight is
\* 1 with left = res-2, right = r_right = res-1, l_left = res-3, and the
\* polynomial equals Row[res-1] in exact arithmetic only.
C10_CubicNodes ==
    (GridCall("forward") /\ self.cubic_interpolation /\ Res >= 3 /\ AtNode)
        => /\ call.status = "ok"
           /\ 0 <= call.l_left /\ call.l_left <= call.left /\ call.left <= call.right
           /\ call.right <= call.r_right /\ call.r_right <= Res - 1
           /\ Node <= Res - 2
                => /\ call.weight = 0 /\ call.left = Node
                   /\ call.out = call.grid[Node]
           /\ Node = Res - 1
                => /\ call.weight = WeightDen
                   /\ call.left = Res - 2 /\ call.right = Res - 1
                   /\ call.l_left = Res - 3 /\ call.r_right = Res - 1
                   /\ CubicExact(call.weight, call.grid[call.l_left], call.grid[call.left],
                                 call.grid[call.right], call.grid[call.r_right])
                        = 2 * WeightDen3 * call.grid[Res - 1]

C10_Witness ==
    /\ GridCall("forward") /\ self.cubic_interpolation /\ Res >= 3
    /\ AtNode /\ Node = Res - 1 /\ call.status = "ok"
    /\ call.grid[Res - 1] # call.grid[Res - 2]
    /\ call.grid[Res - 3] # call.grid[Res - 2]

QACall(op) == module = "QALinear" /\ call.op = op

\* the raw values of the quantization group of weight element idx / of the bias
WGroupVals(idx) ==
    {self.weight[y] : y \in WeightGroup(self.quant_axis, idx, self.in_dim, self.out_dim)}
BGroupVals == {self.bias[y] : y \in 0 .. (self.out_dim - 1)}

\* the element r (level and value) is level k in 0 .. n_bits^2-1 of the group
\* G, its value min + k * scale lies in [min, max]
OnGrid(r, G) ==
    LET d == self.n_bits * self.n_bits - 1
    IN  /\ ~r.value.nan
        /\ r.level \in 0 .. d
        /\ r.value.den = d
        /\ r.value.num = SetMin(G) * d + r.level * Max(SetMax(G) - SetMin(G), MinValue)
        /\ SetMin(G) * d <= r.value.num
        /\ r.value.num <= SetMax(G) * d

\* as OnGrid, the value lying in [min, min + max(max - min, minvalue)]
OnClampedGrid(r, G) ==
    LET d == self.n_bits * self.n_bits - 1
        range == Max(SetMax(G) - SetMin(G), MinValue)
    IN  /\ ~r.value.nan
        /\ r.level \in 0 .. d
        /\ r.value.den = d
        /\ r.value.num = SetMin(G) * d + r.level * range
        /\ SetMin(G) * d <= r.value.num
        /\ r.value.num <= (SetMin(G) + range) * d
        /\ SetMax(G) - SetMin(G) >= MinValue => r.value.num <= SetMax(G) * d

WGroupQuantized(idx) ==
    {call.weight[y].value : y \in WeightGroup(self.quant_axis, idx, self.in_dim, self.out_dim)}
BGroupQuantized == {call.bias[y].value : y \in 0 .. (self.out_dim - 1)}

C7_BitSizeMonotone ==
    /\ (QACall("get_bit_size") /\ self.n_bits < FullPrecision)
         => \A m \in 0 .. (FullPrecision - 1) :
              m < self.n_bits
                => QALinearBitSize(self.in_dim, self.out_dim, m, self.quant_axis) < call.bits
    /\ GridCall("get_bit_size")
         => \A r \in 0 .. MaxRes :
              r < Res => GridBitSize(r, self.bitwidth, self.code_size) < call.bits

\* C7 amended: as stated for QALinear; Grid.get_bit_size() is strictly
\* increasing in grid_resolution when bitwidth >= 1 (with bitwidth = 0 it is
\* constant).
C7_BitSizeMonotonePositiveBitwidth ==
    /\ (QACall("get_bit_size") /\ self.n_bits < FullPrecision)
         => \A m \in 0 .. (FullPrecision - 1) :
              m < self.n_bits
                => QALinearBitSize(self.in_dim, self.out_dim, m, self.quant_axis) < call.bits
    /\ (GridCall("get_bit_size") /\ self.bitwidth >= 1)
         => \A r \in 0 .. MaxRes :
              r < Res => GridBitSize(r, self.bitwidth, self.code_size) < call.bits
    /\ (GridCall("get_bit_size") /\ self.bitwidth = 0)
         => \A r \in 0 .. MaxRes : GridBitSize(r, self.bitwidth, self.code_size) = call.bits

C7_Witness ==
    /\ GridCall("get_bit_size") /\ self.bitwidth >= 1 /\ Res >= 2
    /\ call.bits = 16 * 2 * self.code_size + Res

IsNet == module \in {"GridVINR", "VINR"}

\* C5 as stated: a grid_reduce other than 'sum' or 'cat' makes the constructor
\* fail, before any parameter tensor has been allocated.
C5_RejectedBeforeAllocation ==
    (module = "GridVINR" /\ self.grid_reduce \notin {"sum", "cat"})
        => /\ self.pc # "done"
           /\ self.raised # "none" => Allocated(self) = 0

\* C5 amended: a grid_reduce other than 'sum' or 'cat' makes the constructor
\* fail with ValueError after the three Grids (codebook and index table each)
\* have been allocated and before any QALinear is.
C5_RejectedAfterGrids ==
    module = "GridVINR"
        => /\ self.grid_reduce \notin {"sum", "cat"}
              => /\ self.pc \in {"grids", "first_size", "raised"}
                 /\ self.net = <<>>
           /\ self.pc = "raised" <=> self.raised = "ValueError"
           /\ self.raised # "none"
              => /\ self.grid_reduce \notin {"sum", "cat"}
                 /\ Len(self.grids) = 3
                 /\ Allocated(self) = 6

C5_Witness ==
    /\ module = "GridVINR" /\ self.grid_reduce = "invalid"
    /\ self.raised = "ValueError" /\ Len(self.grids) = 3

QALayers(net) == {k \in 1 .. Len(net) : net[k].kind = "QALinear"}

\* C8: GridVINR.get_bit_size() is the bit size of the three Grids (128, 512,
\* 2048 cells) plus that of the n_hidden_layers+2 QALinear layers, activations
\* counting 0; VINR.get_bit_size() is the same without the Grids.
C8_NetBitSize ==
    (IsNet /\ call.op = "get_bit_size")
        => LET first == IF module = "VINR" THEN self.in_dim
                        ELSE IF self.grid_reduce = "sum" THEN self.in_dim + 4
                        ELSE self.in_dim + 12
               qa(i, o) == QALinearBitSize(i, o, self.n_bits, <<-2, -1>>)
               grids == IF module = "VINR" THEN 0
                        ELSE GridBitSize(128, 6, 4) + GridBitSize(512, 6, 4)
                             + GridBitSize(2048, 6, 4)
           IN  /\ call.bits = grids + qa(first, self.hidden_dim)
                               + self.n_hidden_layers * qa(self.hidden_dim, self.hidden_dim)
                               + qa(self.hidden_dim, self.out_dim)
               /\ Cardinality(QALayers(self.net)) = self.n_hidden_layers + 2
               /\ Len(self.net) = 2 * self.n_hidden_layers + 3
               /\ \A k \in (1 .. Len(self.net)) \ QALayers(self.net) :
                    self.net[k].kind = "activation" /\ LayerBits(self.net[k]) = 0
               /\ module = "GridVINR"
                    => [k \in 1 .. 3 |-> self.grids[k].grid_resolution] = <<128, 512, 2048>>
               /\ module = "VINR" => self.grids = <<>>

C8_Witness ==
    /\ module = "GridVINR" /\ call.op = "get_bit_size"
    /\ self.n_hidden_layers >= 1 /\ self.grid_reduce = "cat"
    /\ call.bits > GridBitSize(2048, 6, 4)

\* C9 as stated: a GridVINR built with in_dim = d, given an input of d
\* channels, feeds its first QALinear a tensor as wide as that layer's in_dim.
C9_FirstLayerFits ==
    (module = "GridVINR" /\ call.op = "forward" /\ call.channels = self.in_dim)
        => /\ call.width = self.net[1].in_dim
           /\ call.status = "ok"
====
